---- MODULE Spec2Model ----
(***************************************************************************)
(* A model of ais_monitor.py: the polling loop that fetches AIS            *)
(* observations, stores them in the SQLite trail table, detects geofence   *)
(* breaches and sends cooldown-gated e-mail alerts.                        *)
(*                                                                         *)
(* Units.  Time is in tenths of a second counted from 00:00:00 of day 1 of *)
(* the current month; time.time() and datetime.utcnow() read the same wall *)
(* clock.  Feed timestamps (timestampExternal) are in milliseconds.        *)
(* Latitudes and longitudes are in tenths of a degree and speeds in tenths *)
(* of a knot, so that the decimal constants of CONFIG are integers.        *)
(***************************************************************************)
EXTENDS Integers, Sequences, FiniteSets, TLC

VARIABLES
    pc,           \* where the process is: "load", "fetch", "save", "check",
                  \* "export", "alert", "sleep", "backoff", "exit", "crashed",
                  \* "refused", "stopped", "killed"; "unit_..." when one
                  \* function is run by itself
    mode,         \* "once" ('--once' in sys.argv) or "loop"
    password,     \* CONFIG['email']['password'] is non-empty
    min_speed,    \* CONFIG['email']['min_speed_knots']
    clock,        \* the wall clock
    cycles,       \* how many sleeps of monitor_loop have been taken
    feed,         \* data['features'] of the last fetch (<<>> when it failed)
    vessels,      \* the list returned by fetch_vessels in this cycle
    breaches,     \* the list returned by check_geofence in this cycle
    i,            \* index in breaches of the next vessel of the alert loop
    db,           \* the rows of table positions
    alert_cache,  \* _alert_cache: mmsi -> time of the last alert sent
    sent,         \* log: the alerts sent so far, <<mmsi, now>> in order
    last,         \* log: mmsi -> how its latest send_alert call ended
    ev,           \* log: the last call made and what it did
    trails        \* the features of out/trails.geojson as last written

vars == <<pc, mode, password, min_speed, clock, cycles, feed, vessels,
          breaches, i, db, alert_cache, sent, last, ev, trails>>

-----------------------------------------------------------------------------
(* CONFIG *)

latmin == 590
latmax == 605
lonmin == 240
lonmax == 270
max_age_minutes == 10
cooldown_hours == 1
min_speed_knots == 2
check_interval_seconds == 300
error_backoff_seconds == 60
trail_hours == 3

\* How many sleeps of monitor_loop a behaviour is followed through.
MaxCycles == 2

\* A number of seconds, in the unit of the clock.
Seconds(n) == 10 * n

\* JSON null, Python None, SQL NULL.
Null == 0 - 1

\* The restricted area loaded from CONFIG['geofence']: a rectangle around
\* Keri (lon 25.0164, lat 59.7178), given by its west, east, south and north
\* edges.
Polygon == [w |-> 248, e |-> 253, s |-> 595, n |-> 599]

\* shapely's polygon.contains(Point(lon, lat)): the interior only, a point of
\* the boundary is not contained.
Contains(polygon, lon, lat) ==
    /\ polygon.w < lon /\ lon < polygon.e
    /\ polygon.s < lat /\ lat < polygon.n

-----------------------------------------------------------------------------
(* Timestamps of the trail table.  Column timestamp is TEXT and holds      *)
(* datetime.isoformat(): "YYYY-MM-DDTHH:MM:SS", followed by ".ffffff" when *)
(* the microsecond is not 0.  All fields are zero-padded, so the strings   *)
(* of one month differ in DD, HH, MM, SS and the fraction only.  A string  *)
(* is modelled by these characters: eight digits, then Dot and one digit   *)
(* of fraction when the fraction is not 0.                                 *)

\* '.', which sorts before the digits.
Dot == 0 - 2

Digits2(n) == <<n \div 10, n % 10>>

isoformat(t) ==
    LET s == t \div 10
    IN  Digits2(s \div 86400 + 1) \o Digits2((s % 86400) \div 3600)
            \o Digits2((s % 3600) \div 60) \o Digits2(s % 60)
            \o (IF t % 10 = 0 THEN <<>> ELSE <<Dot, t % 10>>)

\* datetime.fromisoformat, the instant a stored string stands for.
fromisoformat(s) ==
    Seconds((10 * s[1] + s[2] - 1) * 86400 + (10 * s[3] + s[4]) * 3600
                + (10 * s[5] + s[6]) * 60 + (10 * s[7] + s[8]))
        + (IF Len(s) > 8 THEN s[10] ELSE 0)

\* SQLite's comparison of two TEXT values (memcmp, the shorter first when one
\* is a prefix of the other).
RECURSIVE TextLess(_, _)
TextLess(a, b) ==
    IF b = <<>> THEN FALSE
    ELSE IF a = <<>> THEN TRUE
    ELSE IF Head(a) # Head(b) THEN Head(a) < Head(b)
    ELSE TextLess(Tail(a), Tail(b))

\* The first reading of the clock: day 2, 00:00:00.
StartClock == Seconds(24 * 3600)

-----------------------------------------------------------------------------
(* The feed.  A feature is one element of data['features']:                *)
(*   gtype   geometry.type                                                 *)
(*   coords  geometry.coordinates, <<lon, lat>> when well formed           *)
(*   mmsi, sog, cog   properties (Null for a JSON null)                    *)
(*   ts      properties.timestampExternal in ms, 0 when zero or absent     *)

Feature(gtype, coords, mmsi, sog, cog, ts) ==
    [gtype |-> gtype, coords |-> coords, mmsi |-> mmsi, sog |-> sog,
     cog |-> cog, ts |-> ts]

\* Vessel.__init__ as called by fetch_vessels (name and heading, which only
\* logs and message texts use, are left out).
Vessel(mmsi, lat, lon, sog, cog, timestamp) ==
    [mmsi |-> mmsi, lat |-> lat, lon |-> lon, sog |-> sog, cog |-> cog,
     timestamp |-> timestamp]

\* "Filter: only in bbox"
InBbox(lon, lat) ==
    /\ latmin <= lat /\ lat <= latmax
    /\ lonmin <= lon /\ lon <= lonmax

\* "Filter: only vessels with recent data": age_minutes > max_age_minutes with
\* age_minutes = (time.time() - timestamp_ext / 1000) / 60, both sides
\* multiplied by 60 * 1000.
\* Mutant: the age filter left out.
TooOldNever(timestamp_ext, now) == FALSE

TooOld(timestamp_ext, now) ==
    /\ timestamp_ext # 0
    /\ 100 * now - timestamp_ext > max_age_minutes * 60 * 1000

\* The body of the loop over data['features']: TRUE when the feature is
\* appended to vessels.  Comparing a null coordinate with the bbox raises
\* TypeError, which the except clause of the loop turns into a skip.
Accepted(feature, now) ==
    /\ feature.gtype = "Point"
    /\ Len(feature.coords) >= 2
    /\ feature.coords[1] # Null /\ feature.coords[2] # Null
    /\ InBbox(feature.coords[1], feature.coords[2])
    /\ ~TooOld(feature.ts, now)

RECURSIVE NormalizeFeatures(_, _)
NormalizeFeatures(features, now) ==
    IF features = <<>> THEN <<>>
    ELSE LET feature == Head(features)
             rest == NormalizeFeatures(Tail(features), now)
         IN  IF Accepted(feature, now)
             THEN <<Vessel(feature.mmsi, feature.coords[2], feature.coords[1],
                           feature.sog, feature.cog, feature.ts)>> \o rest
             ELSE rest

\* A feature whose "geometry" is JSON null (gtype "null"):
\* feature.get('geometry', {}) is None and geom.get raises AttributeError,
\* which the except clause of the loop (ValueError, TypeError, KeyError) does
\* not catch.
Escapes(feature) == feature.gtype = "null"

\* fetch_vessels: the accepted features in feed order; [] when the request or
\* the parsing raises or an exception leaves the loop ("except Exception:
\* return []").
fetch_vessels(ok, features, now) ==
    IF ok /\ \A k \in 1..Len(features) : ~Escapes(features[k])
    THEN NormalizeFeatures(features, now)
    ELSE <<>>

-----------------------------------------------------------------------------
(* The trail table: the set of its rows (two rows that agree in every      *)
(* column are not told apart).  PRIMARY KEY (mmsi, timestamp).             *)

Row(v, timestamp) ==
    [mmsi |-> v.mmsi, timestamp |-> timestamp, lat |-> v.lat, lon |-> v.lon,
     sog |-> v.sog, cog |-> v.cog]

\* The uniqueness test of the primary key of a rowid table: SQLite takes
\* NULLs to be distinct from each other, so a row with a NULL mmsi conflicts
\* with no row.
Conflicts(r, row) ==
    /\ row.mmsi # Null
    /\ r.mmsi = row.mmsi
    /\ r.timestamp = row.timestamp

\* INSERT OR REPLACE INTO positions: the rows that conflict are deleted.
InsertOrReplace(table, row) ==
    {r \in table : ~Conflicts(r, row)} \cup {row}

\* The loop "for v in vessels" of save_positions, all rows keyed by now.
RECURSIVE InsertAll(_, _, _)
InsertAll(table, vs, now) ==
    IF vs = <<>> THEN table
    ELSE InsertAll(InsertOrReplace(table, Row(Head(vs), now)), Tail(vs), now)

\* Mutant: the DELETE with <= for <.
DeleteOldInclusive(table, cutoff) ==
    {r \in table : TextLess(cutoff, r.timestamp)}

\* DELETE FROM positions WHERE timestamp < cutoff
DeleteOld(table, cutoff) == {r \in table : ~TextLess(r.timestamp, cutoff)}

\* Mutant: the cleanup left out.
CleanupNothing(table, now) == table

\* "Cleanup old positions": the cutoff is computed from a reading of the clock.
Cleanup(table, now) ==
    DeleteOld(table, isoformat(now - Seconds(trail_hours * 3600)))

\* save_positions when nothing raises: now is the reading that keys the rows,
\* later the reading the cutoff is computed from.
save_positions(table, vs, now, later) ==
    IF vs = <<>> THEN table
    ELSE Cleanup(InsertAll(table, vs, isoformat(now)), later)

-----------------------------------------------------------------------------
(* build_trails *)

\* SELECT mmsi, COUNT(*) ... GROUP BY mmsi HAVING cnt > 1: GROUP BY puts the
\* rows with a NULL mmsi into one group.
TrailMmsis(table) ==
    {m \in {r.mmsi : r \in table} : Cardinality({r \in table : r.mmsi = m}) > 1}

\* SELECT ... WHERE mmsi = ?: no row when the parameter is NULL, as NULL = NULL
\* is not true.
PositionsOf(table, mmsi) ==
    {r \in table : mmsi # Null /\ r.mmsi = mmsi}

\* ORDER BY timestamp: the rows as a list, by the text order of the column.
\* (The rows of one mmsi differ in timestamp, the primary key.)
OrderByTimestamp(rows) ==
    LET before == [r \in rows |->
                      Cardinality({q \in rows :
                                      TextLess(q.timestamp, r.timestamp)})]
    IN  [k \in 1..Cardinality(rows) |-> CHOOSE r \in rows : before[r] = k - 1]

\* The feature appended for one mmsi.
TrailFeature(mmsi, positions) ==
    [mmsi |-> mmsi,
     coordinates |-> [k \in 1..Len(positions) |->
                         <<positions[k].lon, positions[k].lat>>],
     points |-> Len(positions),
     start |-> positions[1].timestamp,
     end |-> positions[Len(positions)].timestamp]

\* build_trails: the features of the collection it returns (their order in
\* the list is left out).
build_trails(table) ==
    { TrailFeature(m, OrderByTimestamp(PositionsOf(table, m))) :
        m \in {n \in TrailMmsis(table) :
                  Cardinality(PositionsOf(table, n)) >= 2} }

-----------------------------------------------------------------------------
(* check_geofence *)

\* "v.sog < min_speed" raises TypeError when sog is None; it is evaluated for
\* the vessels inside the polygon only.
SpeedTestRaises(v, polygon) ==
    /\ Contains(polygon, v.lon, v.lat)
    /\ v.sog = Null

\* Mutant: the speed test with <= for <.
IsBreachAbove(v, polygon, threshold) ==
    /\ Contains(polygon, v.lon, v.lat)
    /\ ~(v.sog <= threshold)

\* Mutant: the speed test left out.
IsBreachAnySpeed(v, polygon, threshold) ==
    Contains(polygon, v.lon, v.lat)

IsBreach(v, polygon, threshold) ==
    /\ Contains(polygon, v.lon, v.lat)
    /\ ~(v.sog < threshold)

GeofenceRaises(vs, polygon) ==
    \E k \in 1..Len(vs) : SpeedTestRaises(vs[k], polygon)

\* The list check_geofence returns when it does not raise.
RECURSIVE check_geofence(_, _, _)
check_geofence(vs, polygon, threshold) ==
    IF vs = <<>> THEN <<>>
    ELSE IF IsBreach(Head(vs), polygon, threshold)
         THEN <<Head(vs)>> \o check_geofence(Tail(vs), polygon, threshold)
         ELSE check_geofence(Tail(vs), polygon, threshold)

-----------------------------------------------------------------------------
(* send_alert *)

\* Mutant: the cooldown test with <= for <.
CooldownActiveInclusive(cache, mmsi, now) ==
    /\ mmsi \in DOMAIN cache
    /\ now - cache[mmsi] <= Seconds(cooldown_hours * 3600)

\* Mutant: the cooldown test left out.
CooldownActiveNever(cache, mmsi, now) == FALSE

\* "if vessel.mmsi in _alert_cache: if now - _alert_cache[vessel.mmsi] < cooldown"
CooldownActive(cache, mmsi, now) ==
    /\ mmsi \in DOMAIN cache
    /\ now - cache[mmsi] < Seconds(cooldown_hours * 3600)

\* _alert_cache[vessel.mmsi] = now
Record(cache, mmsi, now) ==
    [m \in DOMAIN cache \cup {mmsi} |-> IF m = mmsi THEN now ELSE cache[m]]

\* Mutant: the cache written before the SMTP block, so also when it raises.
CacheAfterAttempt(cache, mmsi, now, result) ==
    IF result \in {"sent", "error"} THEN Record(cache, mmsi, now) ELSE cache

\* Mutant: the cache never written.
CacheAfterForgotten(cache, mmsi, now, result) == cache

\* The cache that send_alert leaves, by the way the call ended.
CacheAfter(cache, mmsi, now, result) ==
    IF result = "sent" THEN Record(cache, mmsi, now) ELSE cache

\* How a call of send_alert ends: "cooldown" (return False at the cooldown
\* test), "unconfigured" (no password), "sent" (return True) or "error" (the
\* SMTP block raised, return False).
AlertResult(cache, mmsi, now, pw, smtp_ok) ==
    IF CooldownActive(cache, mmsi, now) THEN "cooldown"
    ELSE IF ~pw THEN "unconfigured"
    ELSE IF smtp_ok THEN "sent"
    ELSE "error"

-----------------------------------------------------------------------------
(* The inputs the model draws from. *)

\* A feed record as the API may return it: age is how many seconds old its
\* timestampExternal is when fetched, -1 for a zero or absent one.
Template(gtype, coords, mmsi, sog, cog, age) ==
    [gtype |-> gtype, coords |-> coords, mmsi |-> mmsi, sog |-> sog,
     cog |-> cog, age |-> age]

Moving    == Template("Point", <<250, 597>>, 230, 50, 90, 0)
Anchored  == Template("Point", <<250, 597>>, 230, 1, 0, 0)
Threshold == Template("Point", <<251, 598>>, 230, 2, 45, 600)
Passing   == Template("Point", <<260, 600>>, 276, 50, 180, -1)
Stale     == Template("Point", <<250, 597>>, 276, 50, 90, 1200)
Outside   == Template("Point", <<280, 597>>, 276, 50, 90, 0)
Undated   == Template("Point", <<250, 597>>, 276, 50, 270, -1)
Line      == Template("LineString", <<250, 597>>, 276, 50, 90, 0)
NoCoords  == Template("Point", <<250>>, 276, 50, 90, 0)
NullCoords == Template("Point", <<Null, Null>>, 276, 50, 90, 0)
NoSpeed   == Template("Point", <<250, 597>>, 276, Null, 90, 0)
NoId      == Template("Point", <<260, 600>>, Null, 50, 180, 0)
NoIdToo   == Template("Point", <<261, 601>>, Null, 30, 170, 0)

NoGeometry == Template("null", <<>>, 276, 50, 90, 0)

Feeds ==
    { <<>>, <<Moving>>, <<Moving, Threshold>>,
      <<Stale, Outside, Line, NoCoords, NullCoords>>, <<Line, Passing, Stale>>,
      <<Undated, Anchored>>, <<NoSpeed, Moving>>, <<NoId, NoIdToo>> }

\* The feeds of the loop followed without end.
LiveFeeds == { <<>>, <<Moving>> }

FeatureAt(t, now) ==
    Feature(t.gtype, t.coords, t.mmsi, t.sog, t.cog,
            IF t.age = -1 THEN 0 ELSE 100 * (now - Seconds(t.age)))

FeaturesAt(batch, now) == [k \in 1..Len(batch) |-> FeatureAt(batch[k], now)]

\* The sleeps of monitor_loop last a whole number of check intervals: a sleep
\* of n intervals stands for n - 1 further cycles whose fetch returned nothing
\* (such a cycle changes nothing but the clock).
SleepIntervals == {1, 12, 36}

NoCache == [m \in {} |-> 0]

NoCalls == [m \in {} |-> ""]

Event(op, now, mmsi, result, deleted) ==
    [op |-> op, now |-> now, mmsi |-> mmsi, result |-> result,
     deleted |-> deleted]

-----------------------------------------------------------------------------
(* The process *)

Init ==
    /\ pc = "load"
    /\ mode \in {"once", "loop"}
    /\ password \in BOOLEAN
    /\ min_speed = min_speed_knots
    /\ clock = StartClock
    /\ cycles = 0
    /\ feed = <<>>
    /\ vessels = <<>>
    /\ breaches = <<>>
    /\ i = 1
    /\ db = {}
    /\ alert_cache = NoCache
    /\ sent = <<>>
    /\ last = NoCalls
    /\ ev = Event("start", StartClock, 0, "", 0)
    /\ trails = {}

\* Where control goes when run_check returns.
Returned == IF mode = "once" THEN "exit" ELSE "sleep"

\* Mutant: monitor_loop without its "except Exception".
RaisedUncaught == "crashed"

\* Where control goes when run_check raises: monitor_loop logs and backs off,
\* '--once' lets the exception end the process.
Raised == IF mode = "once" THEN "crashed" ELSE "backoff"

\* What CONFIG['geofence'] names: "missing" (no readable JSON file), "empty"
\* (not a FeatureCollection, or one without features), "invalid" (the first
\* feature has a geometry that is no valid polygon, e.g. a self-intersecting
\* ring) or "valid".
Geofences == {"missing", "empty", "invalid", "valid"}

\* load_geofence raises when open or json.load raises and when the data is
\* "empty"; shape() builds the geometry without testing its validity.
GeofenceLoads(geofence) == geofence \in {"invalid", "valid"}

\* __main__: polygon = load_geofence(geofence_path), which raises or returns;
\* then init_db() and the first cycle.  (The model goes on with Polygon also
\* when the geometry is invalid.)
Startup ==
    /\ pc = "load"
    /\ \E geofence \in Geofences :
        /\ pc' = IF GeofenceLoads(geofence) THEN "fetch" ELSE "refused"
        /\ ev' = Event("load_geofence", clock, 0, geofence, 0)
    /\ UNCHANGED <<mode, password, min_speed, clock, cycles, feed, vessels,
                   breaches, i, db, alert_cache, sent, last,
                   trails>>

\* Mutant: "if not vessels: return" left out.
FetchFromNoReturn(feeds) ==
    /\ pc = "fetch"
    /\ \E ok \in BOOLEAN, batch \in feeds :
        /\ feed' = IF ok THEN FeaturesAt(batch, clock) ELSE <<>>
        /\ vessels' = fetch_vessels(ok, feed', clock)
        /\ ev' = Event("fetch_vessels", clock, 0, IF ok THEN "ok" ELSE "error", 0)
    /\ breaches' = <<>>
    /\ i' = 1
    /\ pc' = "save"
    /\ UNCHANGED <<mode, password, min_speed, clock, cycles, db, alert_cache,
                   sent, last, trails>>

\* run_check: vessels = fetch_vessels(); if not vessels: return
FetchFrom(feeds) ==
    /\ pc = "fetch"
    /\ \E ok \in BOOLEAN, batch \in feeds :
        /\ feed' = IF ok THEN FeaturesAt(batch, clock) ELSE <<>>
        /\ vessels' = fetch_vessels(ok, feed', clock)
        /\ ev' = Event("fetch_vessels", clock, 0, IF ok THEN "ok" ELSE "error", 0)
    /\ breaches' = <<>>
    /\ i' = 1
    /\ pc' = IF vessels' = <<>> THEN Returned ELSE "save"
    /\ UNCHANGED <<mode, password, min_speed, clock, cycles, db, alert_cache,
                   sent, last,
                   trails>>

Fetch == FetchFrom(Feeds)

\* run_check: save_positions(vessels).  sqlite3 may raise outside the
\* per-row try: at connect (nothing written) or at the DELETE (the inserts
\* are committed already).
SavePositions ==
    /\ pc = "save"
    /\ \E fail \in {"none", "connect", "delete"} :
        /\ db' = CASE fail = "none" -> save_positions(db, vessels, clock, clock)
                   [] fail = "connect" -> db
                   [] fail = "delete" -> InsertAll(db, vessels, isoformat(clock))
        /\ pc' = IF fail = "none" THEN "check" ELSE Raised
        /\ ev' = Event("save_positions", clock, 0,
                       IF fail = "none" THEN "ok" ELSE "error",
                       IF fail = "none"
                       THEN Cardinality(InsertAll(db, vessels, isoformat(clock)))
                                - Cardinality(db')
                       ELSE 0)
    /\ UNCHANGED <<mode, password, min_speed, clock, cycles, feed, vessels,
                   breaches, i, alert_cache, sent, last,
                   trails>>

\* Mutant: the alert loop before export_geojson.
CheckGeofenceThenAlert ==
    /\ pc = "check"
    /\ IF GeofenceRaises(vessels, Polygon)
       THEN /\ breaches' = breaches
            /\ pc' = Raised
            /\ ev' = Event("check_geofence", clock, 0, "error", 0)
       ELSE /\ breaches' = check_geofence(vessels, Polygon, min_speed)
            /\ pc' = IF breaches' = <<>> THEN "export" ELSE "alert"
            /\ ev' = Event("check_geofence", clock, 0, "ok", 0)
    /\ UNCHANGED <<mode, password, min_speed, clock, cycles, feed, vessels, i,
                   db, alert_cache, sent, last, trails>>

\* run_check: breaches = check_geofence(vessels, polygon)
CheckGeofence ==
    /\ pc = "check"
    /\ IF GeofenceRaises(vessels, Polygon)
       THEN /\ breaches' = breaches
            /\ pc' = Raised
            /\ ev' = Event("check_geofence", clock, 0, "error", 0)
       ELSE /\ breaches' = check_geofence(vessels, Polygon, min_speed)
            /\ pc' = "export"
            /\ ev' = Event("check_geofence", clock, 0, "ok", 0)
    /\ UNCHANGED <<mode, password, min_speed, clock, cycles, feed, vessels, i,
                   db, alert_cache, sent, last,
                   trails>>

\* run_check: export_geojson(vessels, out_dir).  Writing a file may raise,
\* before trails.geojson is written or after it.
Export ==
    /\ pc = "export"
    /\ \E fail \in {"none", "before", "after"} :
        /\ trails' = IF fail = "before" THEN trails ELSE build_trails(db)
        /\ pc' = IF fail # "none" THEN Raised
                 ELSE IF breaches = <<>> THEN Returned ELSE "alert"
        /\ ev' = Event("export_geojson", clock, 0,
                       IF fail = "none" THEN "ok" ELSE "error", 0)
    /\ UNCHANGED <<mode, password, min_speed, clock, cycles, feed, vessels,
                   breaches, i, db, alert_cache, sent, last>>

\* The effect of one call send_alert(vessel) that reads now from the clock.
Alerted(mmsi, now, smtp_ok) ==
    LET result == AlertResult(alert_cache, mmsi, now, password, smtp_ok)
    IN  /\ alert_cache' = CacheAfter(alert_cache, mmsi, now, result)
        /\ sent' = IF result = "sent" THEN Append(sent, <<mmsi, now>>)
                   ELSE sent
        /\ last' = [m \in DOMAIN last \cup {mmsi} |->
                        IF m = mmsi THEN result ELSE last[m]]
        /\ ev' = Event("send_alert", now, mmsi, result, 0)

\* run_check: one turn of "for vessel in breaches: send_alert(vessel)"
SendAlert ==
    /\ pc = "alert"
    /\ \E smtp_ok \in BOOLEAN : Alerted(breaches[i].mmsi, clock, smtp_ok)
    /\ i' = i + 1
    /\ pc' = IF i = Len(breaches) THEN Returned ELSE "alert"
    /\ UNCHANGED <<mode, password, min_speed, clock, cycles, feed, vessels,
                   breaches, db,
                   trails>>

\* monitor_loop: time.sleep(CONFIG['check_interval_seconds']).  run_check has
\* returned, its locals are gone.
Sleep ==
    /\ pc = "sleep"
    /\ cycles < MaxCycles
    /\ \E n \in SleepIntervals :
        clock' = clock + Seconds(n * check_interval_seconds)
    /\ cycles' = cycles + 1
    /\ pc' = "fetch"
    /\ feed' = <<>> /\ vessels' = <<>> /\ breaches' = <<>> /\ i' = 1
    /\ UNCHANGED <<mode, password, min_speed, db,
                   alert_cache, sent, last, ev, trails>>

\* monitor_loop: except Exception: time.sleep(60)
Backoff ==
    /\ pc = "backoff"
    /\ cycles < MaxCycles
    /\ clock' = clock + Seconds(error_backoff_seconds)
    /\ cycles' = cycles + 1
    /\ pc' = "fetch"
    /\ feed' = <<>> /\ vessels' = <<>> /\ breaches' = <<>> /\ i' = 1
    /\ UNCHANGED <<mode, password, min_speed, db,
                   alert_cache, sent, last, ev, trails>>

Next ==
    \/ Startup
    \/ Fetch
    \/ SavePositions
    \/ CheckGeofence
    \/ Export
    \/ SendAlert
    \/ Sleep
    \/ Backoff

Spec == Init /\ [][Next]_vars

-----------------------------------------------------------------------------
(* Single functions run by themselves, on inputs drawn from small sets:    *)
(* send_alert on any sequence of readings of the wall clock (which may be  *)
(* set back between two calls), check_geofence under any threshold, and    *)
(* save_positions on tables whose rows lie around the retention cutoff.    *)

UnitReadings ==
    { StartClock, StartClock + 5,
      StartClock + Seconds(cooldown_hours * 3600) - 5,
      StartClock + Seconds(cooldown_hours * 3600),
      StartClock + Seconds(cooldown_hours * 3600) + 5 }

UnitThresholds == {1, 2, 3}

UnitObservations ==
    { Vessel(m, p[2], p[1], sog, 0, 0) :
        m \in {230}, p \in {<<250, 597>>, <<248, 597>>, <<260, 600>>},
        sog \in {0, 1, 2, 3, Null} }

UnitVessels ==
    {<<>>} \cup { <<v>> : v \in UnitObservations }
           \cup { <<v, w>> : v \in UnitObservations, w \in UnitObservations }

\* Readings of the clock by save_positions, three hours and more after the
\* first reading.
UnitSaveReadings ==
    { StartClock + Seconds(trail_hours * 3600) + d : d \in {0, 5, 10} }

UnitRows ==
    { Row(Vessel(230, 597, 250, 50, 90, 0), isoformat(StartClock + d)) :
        d \in {0 - 10, 0, 5, 10} }
    \cup { Row(Vessel(230, 600, 260, 7, 0, 0),
               isoformat(StartClock + Seconds(trail_hours * 3600))) }

UnitSaved ==
    { <<Vessel(230, 597, 250, 50, 90, 0)>>,
      <<Vessel(230, 597, 250, 50, 90, 0), Vessel(230, 598, 251, 2, 45, 0)>>,
      <<Vessel(276, 600, 260, 50, 180, 0)>> }

\* Tables for build_trails: three rows of vessel 230 (one with a fraction of a
\* second), two of vessel 276, two with a NULL mmsi.
UnitTrailRows ==
    { Row(Vessel(230, 597 + d, 250 - d, 50, 90, 0), isoformat(StartClock + d)) :
        d \in {0, 5, 10} }
    \cup { Row(Vessel(276, 600, 260 + d, 7, 0, 0),
               isoformat(StartClock + Seconds(d * check_interval_seconds))) :
             d \in {0, 1} }
    \cup { Row(Vessel(Null, 600 + d, 260, 50, 180, 0), isoformat(StartClock)) :
             d \in {0, 1} }

\* Batches for fetch_vessels: one well-formed record among malformed ones.
UnitFeeds ==
    { <<Moving>>, <<Line, NoCoords, NullCoords, Moving>>, <<NoSpeed, Moving>>,
      <<NoId, Moving>>, <<NoGeometry, Moving>>, <<Moving, NoGeometry>> }

UnitInit ==
    /\ pc \in {"unit_alert", "unit_check", "unit_save", "unit_trails",
              "unit_fetch"}
    /\ mode = "once"
    /\ password \in BOOLEAN
    /\ min_speed \in (IF pc = "unit_check" THEN UnitThresholds
                      ELSE {min_speed_knots})
    /\ clock = StartClock
    /\ cycles = 0
    /\ feed \in (IF pc = "unit_fetch"
                THEN {FeaturesAt(batch, StartClock) : batch \in UnitFeeds}
                ELSE {<<>>})
    /\ vessels \in CASE pc = "unit_check" -> UnitVessels
                     [] pc = "unit_save" -> UnitSaved
                     [] OTHER -> {<<>>}
    /\ breaches = <<>>
    /\ i = 1
    /\ db \in CASE pc = "unit_save" -> SUBSET UnitRows
                [] pc = "unit_trails" -> SUBSET UnitTrailRows
                [] OTHER -> {{}}
    /\ alert_cache = NoCache
    /\ sent = <<>>
    /\ last = NoCalls
    /\ ev = Event("start", StartClock, 0, "", 0)
    /\ trails = {}

\* send_alert(vessel), called MaxCycles + 1 times at most.
UnitSendAlert ==
    /\ pc = "unit_alert"
    /\ cycles <= MaxCycles
    /\ \E mmsi \in {230, 276}, now \in UnitReadings, smtp_ok \in BOOLEAN :
        /\ clock' = now
        /\ Alerted(mmsi, now, smtp_ok)
    /\ cycles' = cycles + 1
    /\ UNCHANGED <<pc, mode, password, min_speed, feed, vessels, breaches, i,
                   db,
                   trails>>

\* breaches = check_geofence(vessels, polygon)
UnitCheckGeofence ==
    /\ pc = "unit_check"
    /\ IF GeofenceRaises(vessels, Polygon)
       THEN /\ breaches' = breaches
            /\ ev' = Event("check_geofence", clock, 0, "error", 0)
       ELSE /\ breaches' = check_geofence(vessels, Polygon, min_speed)
            /\ ev' = Event("check_geofence", clock, 0, "ok", 0)
    /\ pc' = "unit_done"
    /\ UNCHANGED <<mode, password, min_speed, clock, cycles, feed, vessels, i,
                   db, alert_cache, sent, last,
                   trails>>

\* save_positions(vessels), the clock read twice.
UnitSavePositions ==
    /\ pc = "unit_save"
    /\ \E now \in UnitSaveReadings, later \in UnitSaveReadings :
        /\ now <= later
        /\ clock' = later
        /\ db' = save_positions(db, vessels, now, later)
        /\ ev' = Event("save_positions", now, 0, "ok",
                       Cardinality(InsertAll(db, vessels, isoformat(now)))
                           - Cardinality(db'))
    /\ pc' = "unit_done"
    /\ UNCHANGED <<mode, password, min_speed, cycles, feed, vessels, breaches,
                   i, alert_cache, sent, last,
                   trails>>

\* trails_fc = build_trails()
UnitBuildTrails ==
    /\ pc = "unit_trails"
    /\ trails' = build_trails(db)
    /\ ev' = Event("build_trails", clock, 0, "ok", 0)
    /\ pc' = "unit_done"
    /\ UNCHANGED <<mode, password, min_speed, clock, cycles, feed, vessels,
                   breaches, i, db, alert_cache, sent, last>>

\* vessels = fetch_vessels(), the request answered with feed.
UnitFetchVessels ==
    /\ pc = "unit_fetch"
    /\ vessels' = fetch_vessels(TRUE, feed, clock)
    /\ ev' = Event("fetch_vessels", clock, 0, "ok", 0)
    /\ pc' = "unit_done"
    /\ UNCHANGED <<mode, password, min_speed, clock, cycles, feed, breaches, i,
                   db, alert_cache, sent, last, trails>>

UnitNext ==
    \/ UnitFetchVessels
    \/ UnitSendAlert
    \/ UnitCheckGeofence
    \/ UnitSavePositions
    \/ UnitBuildTrails

UnitSpec == UnitInit /\ [][UnitNext]_vars

-----------------------------------------------------------------------------
(* The loop followed without end.  After the last sleep that Spec follows, *)
(* monitor_loop goes on as before, but the readings of the clock are no    *)
(* longer told apart: the clock of the model stays.                        *)

LaterSleep ==
    /\ pc \in {"sleep", "backoff"}
    /\ cycles = MaxCycles
    /\ pc' = "fetch"
    /\ feed' = <<>> /\ vessels' = <<>> /\ breaches' = <<>> /\ i' = 1
    /\ UNCHANGED <<mode, password, min_speed, clock, cycles,
                   db, alert_cache, sent, last, ev, trails>>

LiveFetch == FetchFrom(LiveFeeds)

LiveNext ==
    \/ Startup
    \/ LiveFetch
    \/ SavePositions
    \/ CheckGeofence
    \/ Export
    \/ SendAlert
    \/ Sleep
    \/ Backoff
    \/ LaterSleep

\* The process is the only thread and every call returns or raises: a step
\* that can be taken is taken.
LiveSpec == Init /\ [][LiveNext]_vars /\ WF_vars(LiveNext)

-----------------------------------------------------------------------------------------------------------------------------------------------------
(* The loop followed without end, time passing.  For the state to stay     *)
(* finite the clock of the model stays, and a sleep moves every instant on *)
(* record back by its length instead; what the code computes from the      *)
(* clock are differences to these instants and comparisons of timestamps   *)
(* of one month, which this keeps.  An instant more than Oldest back is    *)
(* not moved further: it is past the cooldown and the retention horizon    *)
(* alike.                                                                  *)

Oldest == Seconds(trail_hours * 3600 + check_interval_seconds)

Back(t, d, now) == IF t - d < now - Oldest THEN now - Oldest ELSE t - d

\* time.sleep(CONFIG['check_interval_seconds']) after a cycle that returned
\* with no error logged last.
SleepOn ==
    /\ pc = "sleep"
    /\ ev.result # "error"
    /\ LET d == Seconds(check_interval_seconds)
       IN  /\ alert_cache' = [m \in DOMAIN alert_cache |->
                                 Back(alert_cache[m], d, clock)]
           /\ db' = { [r EXCEPT !.timestamp =
                          isoformat(Back(fromisoformat(r.timestamp), d, clock))] :
                      r \in db }
           /\ trails' = { [f EXCEPT
                            !.start = isoformat(Back(fromisoformat(f.start), d, clock)),
                            !.end = isoformat(Back(fromisoformat(f.end), d, clock))] :
                          f \in trails }
           /\ ev' = [ev EXCEPT !.now = Back(ev.now, d, clock)]
    /\ sent' = <<>>
    /\ pc' = "fetch"
    /\ feed' = <<>> /\ vessels' = <<>> /\ breaches' = <<>> /\ i' = 1
    /\ UNCHANGED <<mode, password, min_speed, clock, cycles, last>>

\* The sleep after a cycle that ended with an error logged (a failed fetch or
\* send before the interval sleep, an exception before the backoff): its
\* length is left out, as in LaterSleep.
SleepOff ==
    /\ pc \in {"sleep", "backoff"}
    /\ ev.result = "error"
    /\ pc' = "fetch"
    /\ feed' = <<>> /\ vessels' = <<>> /\ breaches' = <<>> /\ i' = 1
    /\ UNCHANGED <<mode, password, min_speed, clock, cycles, db, alert_cache,
                   sent, last, ev, trails>>

RealertFeeds == { <<Moving>> }

RealertFetch == FetchFrom(RealertFeeds)

RealertNext ==
    \/ Startup
    \/ RealertFetch
    \/ SavePositions
    \/ CheckGeofence
    \/ Export
    \/ SendAlert
    \/ SleepOn
    \/ SleepOff

RealertSpec == Init /\ [][RealertNext]_vars /\ WF_vars(RealertNext)

-----------------------------------------------------------------------------
(* The process with the interrupt of the user (SIGINT).  Python raises     *)
(* KeyboardInterrupt in the main thread wherever it is; no handler of      *)
(* run_check or of the functions it calls catches it ("except Exception"   *)
(* does not).                                                              *)

\* Where the interrupt ends the process: "stopped" when "except
\* KeyboardInterrupt: break" of monitor_loop catches it, which covers
\* run_check and the interval sleep; "killed" when nothing does (startup,
\* '--once', and the backoff sleep, which is inside the except clause).
Interrupted ==
    IF mode = "loop" /\ pc \in {"fetch", "save", "check", "export", "alert", "sleep"}
    THEN "stopped"
    ELSE "killed"

\* KeyboardInterrupt.  Inside save_positions it arrives before the commit of
\* the inserts (the connection is dropped, nothing is written) or after it
\* (no DELETE); inside export_geojson before or after trails.geojson is
\* written.
Interrupt ==
    /\ pc \in {"load", "fetch", "save", "check", "export", "alert", "sleep",
              "backoff"}
    /\ pc' = Interrupted
    /\ ev' = Event("interrupt", clock, 0, pc, 0)
    /\ db' \in IF pc = "save"
               THEN {db, InsertAll(db, vessels, isoformat(clock))}
               ELSE {db}
    /\ trails' \in IF pc = "export" THEN {trails, build_trails(db)}
                   ELSE {trails}
    /\ UNCHANGED <<mode, password, min_speed, clock, cycles, feed, vessels,
                   breaches, i, alert_cache, sent, last>>

StopNext ==
    \/ Startup
    \/ LiveFetch
    \/ SavePositions
    \/ CheckGeofence
    \/ Export
    \/ SendAlert
    \/ Sleep
    \/ Backoff
    \/ Interrupt

StopSpec == Init /\ [][StopNext]_vars

-----------------------------------------------------------------------------
(* The loop taken up after 36 cycles that each stored one observation of   *)
(* vessel 230.  A real cycle takes time, so two cycles are more than       *)
(* check_interval_seconds apart: here by a tenth of a second.              *)

TrailRows ==
    { Row(Vessel(230, 597, 250, 50, 90, 0),
          isoformat(StartClock - k * (Seconds(check_interval_seconds) + 1))) :
        k \in 0..35 }

TrailFeeds == { <<>>, <<Moving>> }

TrailInit ==
    /\ pc = "sleep"
    /\ mode = "loop"
    /\ password \in BOOLEAN
    /\ min_speed = min_speed_knots
    /\ clock = StartClock
    /\ cycles = 0
    /\ feed = FeaturesAt(<<Moving>>, StartClock)
    /\ vessels = fetch_vessels(TRUE, feed, StartClock)
    /\ breaches = <<>>
    /\ i = 1
    /\ db = TrailRows
    /\ alert_cache = NoCache
    /\ sent = <<>>
    /\ last = NoCalls
    /\ ev = Event("export_geojson", StartClock, 0, "ok", 0)
    /\ trails = build_trails(TrailRows)

TrailFetch == FetchFrom(TrailFeeds)

TrailNext ==
    \/ TrailFetch
    \/ SavePositions
    \/ CheckGeofence
    \/ Export
    \/ SendAlert
    \/ Sleep
    \/ Backoff

TrailSpec == TrailInit /\ [][TrailNext]_vars

-----------------------------------------------------------------------------
(* Claims *)

Cooldown == Seconds(cooldown_hours * 3600)

\* C1: a send_alert call whose SMTP send raises leaves _alert_cache exactly
\* as it was, and the next send_alert call for the same vessel is not
\* suppressed by the cooldown: it attempts the send again.
C1_FailedSendKeepsCooldown ==
    [][pc = "alert" =>
        LET mmsi == breaches[i].mmsi
        IN  /\ ev'.result = "error" => alert_cache' = alert_cache
            /\ (mmsi \in DOMAIN last /\ last[mmsi] = "error")
                  => ev'.result \in {"sent", "error"}]_vars

\* A send has failed for a vessel whose earlier alert is still recorded, and
\* the next call of the alert loop is for the same vessel.
C1_Witness ==
    /\ pc = "alert" /\ i = 2
    /\ ev.op = "send_alert" /\ ev.result = "error"
    /\ breaches[2].mmsi = ev.mmsi
    /\ ev.mmsi \in DOMAIN alert_cache

\* C2: send_alert lets a call pass the cooldown test iff no alert instant is
\* recorded for the vessel or now - lastAlertInstant >= cooldown, where the
\* recorded instant is that of the vessel's latest alert sent (none for a
\* vessel never alerted).
C2_CooldownRule ==
    [][pc = "alert" =>
        LET mmsi == breaches[i].mmsi
        IN  /\ (ev'.result # "cooldown")
                  <=> (\/ mmsi \notin DOMAIN alert_cache
                       \/ clock - alert_cache[mmsi] >= Cooldown)
            /\ \A m \in DOMAIN alert_cache :
                  \E k \in DOMAIN sent :
                      /\ sent[k] = <<m, alert_cache[m]>>
                      /\ \A j \in DOMAIN sent : j > k => sent[j][1] # m
            /\ \A k \in DOMAIN sent : sent[k][1] \in DOMAIN alert_cache]_vars

\* A call one check interval after the vessel's alert was suppressed.
C2_Witness ==
    /\ ev.op = "send_alert" /\ ev.result = "cooldown"
    /\ ev.now - alert_cache[ev.mmsi] = Seconds(check_interval_seconds)

\* C3: any two alerts sent for the same vessel are at least the cooldown
\* apart.
C3_AlertsCooldownApart ==
    \A j \in DOMAIN sent : \A k \in DOMAIN sent :
        (j < k /\ sent[j][1] = sent[k][1]) => sent[k][2] - sent[j][2] >= Cooldown

\* Two alerts were sent for one vessel, exactly the cooldown apart, and in
\* the cycle of the second one the vessel was among the breaches twice.
C3_Witness ==
    /\ pc = "sleep" /\ Len(breaches) = 2
    /\ breaches[1].mmsi = breaches[2].mmsi
    /\ \E j \in DOMAIN sent : \E k \in DOMAIN sent :
          /\ sent[j][1] = sent[k][1]
          /\ sent[k][2] - sent[j][2] = Cooldown
          /\ sent[k][2] = clock

\* C4: whenever send_alert writes a last-alert instant for a vessel that has
\* one recorded, the new instant is not older than the recorded one, whatever
\* the readings of the clock are; no entry is ever removed.
C4_CacheMonotone ==
    [][\A m \in DOMAIN alert_cache :
          /\ m \in DOMAIN alert_cache'
          /\ alert_cache'[m] >= alert_cache[m]]_vars

\* A call read a clock that had been set back behind the recorded instant of
\* a vessel whose entry had been written twice.
C4_Witness ==
    /\ ev.op = "send_alert" /\ ev.mmsi \in DOMAIN alert_cache
    /\ ev.now < alert_cache[ev.mmsi]
    /\ \E j \in DOMAIN sent : \E k \in DOMAIN sent :
          j < k /\ sent[j][1] = ev.mmsi /\ sent[k][1] = ev.mmsi

\* Inside the restricted area with at least the threshold speed.
Qualifies(v) ==
    /\ Polygon.w < v.lon /\ v.lon < Polygon.e
    /\ Polygon.s < v.lat /\ v.lat < Polygon.n
    /\ v.sog >= min_speed

C6_AlertOnlyForCurrentBreach ==
    [][LET Breaching(m) ==
               \E k \in DOMAIN vessels :
                   /\ vessels[k].mmsi = m
                   /\ Qualifies(vessels[k])
                   /\ \E f \in DOMAIN feed :
                         /\ feed[f].mmsi = m
                         /\ feed[f].sog = vessels[k].sog
                         /\ feed[f].coords = <<vessels[k].lon, vessels[k].lat>>
           Same(m) ==
               /\ (m \in DOMAIN alert_cache) = (m \in DOMAIN alert_cache')
               /\ m \in DOMAIN alert_cache => alert_cache'[m] = alert_cache[m]
               /\ (m \in DOMAIN last) = (m \in DOMAIN last')
       IN  /\ pc = "alert" => Breaching(breaches[i].mmsi)
           /\ \A m \in DOMAIN alert_cache' \cup DOMAIN last' :
                 (pc = "alert" /\ Breaching(m)) \/ Same(m)]_vars

\* A vessel alerted in an earlier cycle, when it moved, is observed at anchor
\* inside the area while another vessel breaches: the cycle ends with a call
\* for the other vessel only.
C6_Witness ==
    /\ pc = "sleep" /\ ev.op = "send_alert" /\ ev.now = clock /\ ev.mmsi = 276
    /\ 230 \in DOMAIN alert_cache /\ alert_cache[230] < clock
    /\ \E r \in db : r.mmsi = 230 /\ r.sog >= min_speed
    /\ \E k \in DOMAIN vessels :
          /\ vessels[k].mmsi = 230
          /\ Contains(Polygon, vessels[k].lon, vessels[k].lat)
          /\ vessels[k].sog < min_speed

\* C7: the observations handed to save_positions and check_geofence are, in
\* feed order, the point records of the feed that lie within the bounding box
\* and are not older than max_age_minutes or carry a zero timestamp; every
\* stored row lies within the box, and the rows of this cycle are rows of
\* those observations.
C7_OnlyFreshInBox ==
    LET Fresh(ts) == ts = 0 \/ 100 * clock - ts <= max_age_minutes * 60 * 1000
        InBox(lon, lat) ==
            /\ latmin <= lat /\ lat <= latmax
            /\ lonmin <= lon /\ lon <= lonmax
        Passes(f) ==
            /\ f.gtype = "Point" /\ Len(f.coords) >= 2
            /\ f.coords[1] # Null /\ f.coords[2] # Null
            /\ InBox(f.coords[1], f.coords[2])
            /\ Fresh(f.ts)
        passed == SelectSeq(feed, Passes)
    IN  /\ pc \in {"save", "check", "export", "alert"} =>
              /\ Len(vessels) = Len(passed)
              /\ \A k \in DOMAIN vessels :
                    /\ vessels[k].mmsi = passed[k].mmsi
                    /\ <<vessels[k].lon, vessels[k].lat>> = passed[k].coords
                    /\ vessels[k].timestamp = passed[k].ts
                    /\ InBox(vessels[k].lon, vessels[k].lat)
                    /\ Fresh(vessels[k].timestamp)
              /\ \A k \in DOMAIN breaches :
                    \E j \in DOMAIN vessels : breaches[k] = vessels[j]
        /\ \A r \in db :
              /\ InBox(r.lon, r.lat)
              /\ r.timestamp = isoformat(clock) =>
                    \E k \in DOMAIN vessels :
                        r = [mmsi |-> vessels[k].mmsi, timestamp |-> r.timestamp,
                             lat |-> vessels[k].lat, lon |-> vessels[k].lon,
                             sog |-> vessels[k].sog, cog |-> vessels[k].cog]

\* Of a feed of a LineString, an undated point in the box and a point 20
\* minutes old, the undated point alone was stored and is to be checked.
C7_Witness ==
    /\ pc = "check" /\ Len(feed) = 3 /\ Len(vessels) = 1
    /\ vessels[1].timestamp = 0
    /\ \E f \in DOMAIN feed :
          /\ feed[f].gtype = "Point" /\ feed[f].ts # 0
          /\ 100 * clock - feed[f].ts = 2 * max_age_minutes * 60 * 1000
    /\ \E r \in db : r.mmsi = vessels[1].mmsi /\ r.timestamp = isoformat(clock)

\* C8: no two rows of the positions table have the same (mmsi, timestamp).
C8_UniqueKey ==
    \A r \in db : \A q \in db :
        (r.mmsi = q.mmsi /\ r.timestamp = q.timestamp) => r = q

Horizon == Seconds(trail_hours * 3600)

\* C9: when save_positions has pruned, no row is older than trail_hours at
\* the reading of the clock the cutoff was computed from, and every row that
\* was stored before the call, is not older than that and was not rewritten by
\* the inserts of the call is still there as it was; the call adds nothing but
\* the rows of its observations.
C9_PruneExact ==
    [][pc = "unit_save" =>
        LET Age(r) == clock' - fromisoformat(r.timestamp)
            Rewritten(r) ==
                /\ r.timestamp = isoformat(ev'.now)
                /\ \E k \in DOMAIN vessels : vessels[k].mmsi = r.mmsi
        IN  /\ \A r \in db' : Age(r) <= Horizon
            /\ \A r \in db : (Age(r) <= Horizon /\ ~Rewritten(r)) => r \in db'
            /\ \A r \in db' : r \in db \/ r.timestamp = isoformat(ev'.now)]_vars

\* A call deleted rows and left one whose age is the horizon itself.
C9_Witness ==
    /\ pc = "unit_done" /\ ev.op = "save_positions" /\ ev.deleted > 0
    /\ \E r \in db : clock - fromisoformat(r.timestamp) = Horizon
    /\ \E r \in db : clock - fromisoformat(r.timestamp) < Horizon

\* A row older than trail_hours is stored.
HasOld == \E r \in db : clock - fromisoformat(r.timestamp) > Horizon

\* C10 as stated: under monitor_loop, whenever a row older than trail_hours is
\* stored, a state without such a row follows, whatever the feed returns.
C10_OldAlwaysRemoved ==
    [](mode = "loop" /\ HasOld => <>~HasOld)

\* C10: under monitor_loop, if save_positions completes again and again, then
\* whenever a row older than trail_hours is stored, a state without such a row
\* follows.
C10_OldRemovedBySave ==
    ([]<>(pc = "check"))
        => [](mode = "loop" /\ HasOld => <>~HasOld)

\* save_positions has deleted rows under monitor_loop.
C10_Witness ==
    /\ mode = "loop" /\ pc = "check"
    /\ ev.op = "save_positions" /\ ev.deleted > 0
    /\ ~HasOld

\* C11: under monitor_loop, when a cycle has ended (in the interval sleep or in
\* the backoff sleep), no vessel has more than trail_hours /
\* check_interval_seconds rows in the positions table.
C11_StorageBound ==
    pc \in {"sleep", "backoff"} =>
        \A m \in {r.mmsi : r \in db} :
            Cardinality({r \in db : r.mmsi = m})
                <= (trail_hours * 3600) \div check_interval_seconds

\* C12: build_trails returns one path for every mmsi with more than one row
\* and none for an mmsi with one row; a path holds the positions of all rows of
\* its mmsi by ascending timestamp, points is their number, start and end are
\* the earliest and the latest timestamp; the table is left as it was.
C12_TrailsExact ==
    [][pc = "unit_trails" =>
        /\ db' = db
        /\ \A f \in trails' : \A g \in trails' : f.mmsi = g.mmsi => f = g
        /\ \A m \in {r.mmsi : r \in db} :
              LET rows == {r \in db : r.mmsi = m}
                  paths == {f \in trails' : f.mmsi = m}
              IN  /\ Cardinality(rows) = 1 => paths = {}
                  /\ Cardinality(rows) > 1 =>
                        \E f \in paths :
                            /\ f.points = Cardinality(rows)
                            /\ Len(f.coordinates) = Cardinality(rows)
                            /\ \A r \in rows :
                                  \E k \in DOMAIN f.coordinates :
                                      /\ f.coordinates[k] = <<r.lon, r.lat>>
                                      /\ k = 1 + Cardinality(
                                            {q \in rows :
                                                fromisoformat(q.timestamp)
                                                  < fromisoformat(r.timestamp)})
                                      /\ k = 1 => f.start = r.timestamp
                                      /\ k = f.points => f.end = r.timestamp]_vars

\* C13: a fetch that fails or leaves no observation ends the cycle: the
\* positions table, _alert_cache, the exported trails and the log of alert
\* calls stay as they are, run_check returns without raising, and what follows
\* under monitor_loop is the interval sleep, which changes none of them.
C13_EmptyCycleEnds ==
    [][/\ (pc = "fetch" /\ vessels' = <<>>) =>
              /\ pc' = (IF mode = "loop" THEN "sleep" ELSE "exit")
              /\ db' = db /\ alert_cache' = alert_cache /\ trails' = trails
              /\ sent' = sent /\ last' = last
       /\ (pc = "sleep" /\ ev.op = "fetch_vessels") =>
              /\ pc' = "fetch"
              /\ clock' - clock >= Seconds(check_interval_seconds)
              /\ db' = db /\ alert_cache' = alert_cache /\ trails' = trails
              /\ sent' = sent /\ last' = last]_vars

\* With rows stored and an alert recorded, a cycle fetched records of which
\* none survived, and the loop has slept the interval after it.
C13_Witness ==
    /\ pc = "fetch" /\ cycles = 2
    /\ ev.op = "fetch_vessels" /\ ev.result = "ok"
    /\ clock - ev.now >= Seconds(check_interval_seconds)
    /\ db # {} /\ DOMAIN alert_cache # {}
    /\ \A r \in db : fromisoformat(r.timestamp) < ev.now

\* C14: whatever malformed records a batch holds, fetch_vessels returns an
\* observation for every well-formed record of the batch (a point within the
\* box, fresh, with vessel id and speed).
C14_MalformedSkipped ==
    (pc = "unit_done" /\ ev.op = "fetch_vessels") =>
        \A f \in DOMAIN feed :
            (/\ feed[f].gtype = "Point" /\ Len(feed[f].coords) = 2
             /\ feed[f].coords[1] # Null /\ feed[f].coords[2] # Null
             /\ InBbox(feed[f].coords[1], feed[f].coords[2])
             /\ feed[f].mmsi # Null /\ feed[f].sog # Null
             /\ 100 * ev.now - feed[f].ts <= max_age_minutes * 60 * 1000)
            => \E k \in DOMAIN vessels :
                  /\ vessels[k].mmsi = feed[f].mmsi
                  /\ <<vessels[k].lon, vessels[k].lat>> = feed[f].coords

\* C15: under monitor_loop, whenever run_check has raised, the loop goes on to
\* the fetch of another cycle, and the process never ends: neither by a
\* return nor by an exception of a cycle.
C15_LoopSurvivesFailure ==
    /\ [](mode = "loop" => pc \notin {"exit", "crashed"})
    /\ []((mode = "loop" /\ ev.result = "error"
              /\ ev.op \in {"save_positions", "check_geofence", "export_geojson"})
            => <>(pc = "fetch"))

\* A cycle raised in export_geojson and, the backoff over, the next cycle is
\* about to fetch.
C15_Witness ==
    /\ mode = "loop" /\ pc = "fetch" /\ cycles > 0
    /\ ev.op = "export_geojson" /\ ev.result = "error"
    /\ clock = ev.now + Seconds(error_backoff_seconds)

\* C16: the sleep taken after a cycle that raised is longer than
\* check_interval_seconds, the sleep taken after a cycle that returned.
C16_BackoffLonger ==
    [][pc = "backoff" => clock' - clock > Seconds(check_interval_seconds)]_vars

\* C17: under monitor_loop, an interrupt does not end the process while a
\* cycle is in progress: from fetch to the last alert, the next step is a step
\* of the cycle.
C17_StopBetweenCycles ==
    [][(mode = "loop" /\ pc \in {"fetch", "save", "check", "export", "alert"})
          => pc' \notin {"stopped", "killed"}]_vars

\* C18: when the restricted-area file is missing, empty or holds no valid
\* polygon, the process goes no further than load_geofence.
C18_RefusesBadGeofence ==
    (ev.op = "load_geofence" /\ ev.result # "valid") => pc = "refused"

\* C19: in a cycle with observations the calls follow each other as
\* save_positions (insert, then delete), check_geofence, export_geojson,
\* send_alert.  When check_geofence is called, the rows of the cycle are
\* stored and no row is older than trail_hours; when send_alert is called,
\* that still holds, the table has not changed since, and the exported trails
\* are those of the table as it is, so the path of a vessel of this cycle ends
\* with this cycle's row.
C19_StepOrder ==
    LET Appended ==
            \A k \in DOMAIN vessels :
                \E r \in db :
                    /\ r.mmsi = vessels[k].mmsi
                    /\ r.timestamp = isoformat(clock)
        Pruned ==
            \A r \in db :
                clock - fromisoformat(r.timestamp) <= Seconds(trail_hours * 3600)
    IN  /\ pc = "check" =>
              /\ ev.op = "save_positions" /\ ev.result = "ok"
              /\ vessels # <<>> /\ Appended /\ Pruned
        /\ pc = "export" =>
              /\ ev.op = "check_geofence" /\ ev.result = "ok"
              /\ Appended /\ Pruned
        /\ pc = "alert" =>
              /\ \/ (i = 1 /\ ev.op = "export_geojson" /\ ev.result = "ok")
                 \/ (i > 1 /\ ev.op = "send_alert")
              /\ ev.now = clock
              /\ Appended /\ Pruned
              /\ trails = build_trails(db)
              /\ \A f \in trails :
                    (\E k \in DOMAIN vessels : vessels[k].mmsi = f.mmsi)
                        => f.end = isoformat(clock)

\* The first alert of a cycle is about to be sent; the exported path of the
\* vessel has two points, the older rows of the vessel being pruned.
C19_Witness ==
    /\ pc = "alert" /\ i = 1 /\ cycles = 2
    /\ clock = StartClock + Seconds(37 * check_interval_seconds)
    /\ \E f \in trails :
          /\ f.mmsi = breaches[1].mmsi /\ f.points = 2
          /\ f.start = isoformat(StartClock + Seconds(36 * check_interval_seconds))
          /\ f.end = isoformat(clock)

\* C20: a send_alert call that the cooldown suppresses leaves _alert_cache as
\* it is, and a call made when the cooldown since the recorded instant is over
\* sends (unless the SMTP block raises) and records its instant; so under
\* monitor_loop with a password, a feed that shows the vessel in breach in
\* every cycle and no error in any call, an alert is sent again and again.
C20_RealertedForever ==
    /\ [][pc = "alert" =>
            LET mmsi == breaches[i].mmsi
            IN  /\ ev'.result = "cooldown" => alert_cache' = alert_cache
                /\ (/\ password /\ mmsi \in DOMAIN alert_cache
                    /\ clock - alert_cache[mmsi] >= Cooldown
                    /\ ev'.result # "error")
                      => /\ ev'.result = "sent"
                         /\ alert_cache'[mmsi] = clock]_vars
    /\ (/\ mode = "loop" /\ password
        /\ [](ev.result \notin {"error", "missing", "empty"}))
          => []<>(ev.op = "send_alert" /\ ev.result = "sent" /\ ev.now = clock)

\* The thirteenth cycle in a row has sent an alert, the cooldown after the
\* first one; the calls of the cycles in between were suppressed.
C20_Witness ==
    /\ ev.op = "send_alert" /\ ev.result = "sent" /\ ev.now = clock
    /\ Cardinality({r \in db : r.mmsi = ev.mmsi}) = 13
    /\ \E r \in db :
          /\ r.mmsi = ev.mmsi
          /\ clock - fromisoformat(r.timestamp) = Cooldown

====
